---- MODULE Spec2Model ----
(***************************************************************************)
(* Model of the time-tracking application: the SQLite persistence layer    *)
(* (src/db/mod.rs), the timer/session core AppState (src/ui/mod.rs) and    *)
(* the tray summary (src/tray.rs).                                         *)
(*                                                                         *)
(* Time is counted in clock ticks, Sub ticks to the second, so that the    *)
(* "%Y-%m-%d %H:%M:%S" text format of the storage layer (whole seconds)    *)
(* is a real truncation.  A DateTime<Utc> is a tick count, a stored TEXT   *)
(* timestamp is a count of whole seconds.  Option<T> is the empty set      *)
(* (None) or a singleton (Some).                                           *)
(***************************************************************************)
EXTENDS Integers, Sequences, FiniteSets, TLC

\* ------------------------------------------------------------- bounds
\* clock ticks per second (sub-second resolution of Utc::now())
Sub == 2
\* last clock tick the model lets the wall clock reach
MaxNow == 2
\* rows ever inserted into time_entries
MaxEntries == 2
\* rows ever inserted into projects
MaxProjects == 1

Descriptions == {"", "coding"}
ProjectNames == {"Learning", "Work"}

\* ------------------------------------------------------------- Option
None == {}
Some(x) == {x}
IsSome(o) == o # {}
Unwrap(o) == CHOOSE x \in o : TRUE

VARIABLES
    \* the build: SQLite enforces foreign keys or not, Rust edition 2024 or older
    foreign_keys, edition2024,
    \* the wall clock read by Utc::now(), in ticks
    now,
    \* the database file
    tbl_projects, seq_projects, tbl_time_entries, seq_time_entries,
    \* the process: "running", "exited" or "panicked"
    proc,
    \* AppState and the widgets it holds
    running_entry, projects, description_text, description_sensitive,
    dropdown_selected, dropdown_sensitive, button_icon, timer_label,
    tray_manager, tray_state,
    \* the entries list of the window: the TimeEntry each row was built from
    \* and its continue/delete buttons captured
    entries_list,
    \* the closures queued on the GLib main context by MainContext::invoke from
    \* another thread, oldest first
    main_context,
    \* the last step: its name, argument, return value, the storage calls it
    \* made and those of them that failed
    op, arg, ret, calls, errs

build_vars == <<foreign_keys, edition2024>>
db_vars == <<tbl_projects, seq_projects, tbl_time_entries, seq_time_entries>>
app_vars == <<running_entry, projects, description_text, description_sensitive,
              dropdown_selected, dropdown_sensitive, button_icon, timer_label,
              tray_manager, tray_state, entries_list>>
log_vars == <<op, arg, ret, calls, errs>>
vars == <<foreign_keys, edition2024, now, tbl_projects, seq_projects,
          tbl_time_entries, seq_time_entries, proc, running_entry, projects,
          description_text, description_sensitive, dropdown_selected,
          dropdown_sensitive, button_icon, timer_label, tray_manager,
          tray_state, entries_list, main_context, op, arg, ret, calls, errs>>

\* ------------------------------------------------------------- db/mod.rs
\* faulty variant: the instant rounded to the nearest second
format_datetime_rounded(t) == (t + Sub \div 2) \div Sub

\* start_time.format("%Y-%m-%d %H:%M:%S"): the instant cut to whole seconds
format_datetime(t) == t \div Sub

\* the stored text read back as a DateTime<Utc>
parse_datetime(s) == s * Sub

\* seconds in a calendar day, for date(start_time) and NaiveDate
DaySecs == 2

\* SQLite's date(text) of a stored timestamp, and date.format("%Y-%m-%d"): the
\* day count
date(s) == s \div DaySecs

\* a time_entries row as the TimeEntry the query closures build
row_to_entry(r) ==
    [id |-> r.id, project_id |-> r.project_id, description |-> r.description,
     start_time |-> parse_datetime(r.start_time),
     end_time |-> {parse_datetime(s) : s \in r.end_time},
     created_at |-> parse_datetime(r.created_at)]

\* INSERT then read back.  outcome: "ok", "insert_fail" (the INSERT fails),
\* "readback_fail" (the INSERT succeeds and the SELECT fails).  With foreign
\* keys enforced an INSERT naming a missing project fails.
create_entry(tbl, seq, outcome, project_id, description, start_time) ==
    LET fk_violation == /\ foreign_keys
                        /\ IsSome(project_id)
                        /\ Unwrap(project_id) \notin {p.id : p \in tbl_projects}
        row == [id |-> seq + 1, project_id |-> project_id,
                description |-> description,
                start_time |-> format_datetime(start_time),
                end_time |-> None,
                created_at |-> format_datetime(now)]
    IN  IF outcome = "insert_fail" \/ fk_violation
        THEN [ok |-> FALSE, entry |-> None, tbl |-> tbl, seq |-> seq]
        ELSE IF outcome = "readback_fail"
        THEN [ok |-> FALSE, entry |-> None, tbl |-> tbl \cup {row}, seq |-> seq + 1]
        ELSE [ok |-> TRUE, entry |-> Some(row_to_entry(row)),
              tbl |-> tbl \cup {row}, seq |-> seq + 1]

\* faulty variant: the UPDATE without its WHERE clause
stop_entry_no_where(tbl, outcome, id, end_time) ==
    IF outcome = "fail"
    THEN [ok |-> FALSE, tbl |-> tbl]
    ELSE [ok |-> TRUE,
          tbl |-> {[r EXCEPT !.end_time = Some(format_datetime(end_time))] : r \in tbl}]

\* faulty variant: the UPDATE binds the zero timestamp instead of end_time
stop_entry_epoch(tbl, outcome, id, end_time) ==
    IF outcome = "fail"
    THEN [ok |-> FALSE, tbl |-> tbl]
    ELSE [ok |-> TRUE,
          tbl |-> {IF r.id = id THEN [r EXCEPT !.end_time = Some(0)] ELSE r : r \in tbl}]

\* UPDATE time_entries SET end_time = ?1 WHERE id = ?2
stop_entry(tbl, outcome, id, end_time) ==
    IF outcome = "fail"
    THEN [ok |-> FALSE, tbl |-> tbl]
    ELSE [ok |-> TRUE,
          tbl |-> {IF r.id = id
                   THEN [r EXCEPT !.end_time = Some(format_datetime(end_time))]
                   ELSE r : r \in tbl}]

\* faulty variant: ORDER BY start_time ASC
running_rows_oldest(tbl) ==
    {r \in tbl : /\ r.end_time = None
                 /\ \A q \in tbl : q.end_time = None => r.start_time <= q.start_time}

\* SELECT ... WHERE end_time IS NULL ORDER BY start_time DESC LIMIT 1: the rows
\* the query may return (SQL leaves the order among equal start_time open)
running_rows(tbl) ==
    {r \in tbl : /\ r.end_time = None
                 /\ \A q \in tbl : q.end_time = None => q.start_time <= r.start_time}

\* the possible Ok values of get_running_entry
get_running_entry(tbl) ==
    IF running_rows(tbl) = {} THEN {None}
    ELSE {Some(row_to_entry(r)) : r \in running_rows(tbl)}

\* faulty variant: ORDER BY start_time ASC
get_entries_for_date_asc(tbl, d) ==
    LET rows == {r \in tbl : date(r.start_time) = d}
        n == Cardinality(rows)
    IN  {[i \in 1..n |-> row_to_entry(rs[i])] :
            rs \in {ps \in [1..n -> rows] :
                      /\ \A i, j \in 1..n : i # j => ps[i] # ps[j]
                      /\ \A i, j \in 1..n :
                            i < j => ps[i].start_time <= ps[j].start_time}}

\* SELECT ... WHERE date(start_time) = ?1 ORDER BY start_time DESC: the vectors
\* the query may return (SQL leaves the order among equal start_time open)
get_entries_for_date(tbl, d) ==
    LET rows == {r \in tbl : date(r.start_time) = d}
        n == Cardinality(rows)
    IN  {[i \in 1..n |-> row_to_entry(rs[i])] :
            rs \in {ps \in [1..n -> rows] :
                      /\ \A i, j \in 1..n : i # j => ps[i] # ps[j]
                      /\ \A i, j \in 1..n :
                            i < j => ps[i].start_time >= ps[j].start_time}}

\* faulty variant: a DELETE that affects no row is an error
delete_entry_row_must_exist(tbl, outcome, id) ==
    IF outcome = "fail" \/ ~\E r \in tbl : r.id = id
    THEN [ok |-> FALSE, tbl |-> tbl]
    ELSE [ok |-> TRUE, tbl |-> {r \in tbl : r.id # id}]

\* DELETE FROM time_entries WHERE id = ?1
delete_entry_row(tbl, outcome, id) ==
    IF outcome = "fail"
    THEN [ok |-> FALSE, tbl |-> tbl]
    ELSE [ok |-> TRUE, tbl |-> {r \in tbl : r.id # id}]

\* the name order of ORDER BY name
NameRank(n) == IF n = "Learning" THEN 1 ELSE IF n = "Personal" THEN 2 ELSE 3

\* faulty variant: ORDER BY id
get_all_projects_by_id(tbl) ==
    {ps \in [1..Cardinality(tbl) -> tbl] :
        /\ \A i, j \in 1..Cardinality(tbl) : i # j => ps[i] # ps[j]
        /\ \A i, j \in 1..Cardinality(tbl) : i < j => ps[i].id <= ps[j].id}

\* SELECT ... FROM projects ORDER BY name: the sequences the query may return
get_all_projects(tbl) ==
    {ps \in [1..Cardinality(tbl) -> tbl] :
        /\ \A i, j \in 1..Cardinality(tbl) : i # j => ps[i] # ps[j]
        /\ \A i, j \in 1..Cardinality(tbl) :
              i < j => NameRank(ps[i].name) <= NameRank(ps[j].name)}

\* INSERT INTO projects then read back; outcome as for create_entry.  A project
\* row is its id, name and color: its created_at is stored and never read.
create_project(tbl, seq, outcome, name, color) ==
    LET row == [id |-> seq + 1, name |-> name, color |-> color]
    IN  IF outcome = "insert_fail"
        THEN [ok |-> FALSE, tbl |-> tbl, seq |-> seq]
        ELSE [ok |-> outcome = "ok", tbl |-> tbl \cup {row}, seq |-> seq + 1]

\* DELETE FROM projects WHERE id = ?1, with the ON DELETE SET NULL action of
\* time_entries.project_id, which SQLite runs only when foreign keys are enforced
delete_project(tblp, tble, outcome, id) ==
    IF outcome = "fail"
    THEN [ok |-> FALSE, projects |-> tblp, time_entries |-> tble]
    ELSE [ok |-> TRUE,
          projects |-> {p \in tblp : p.id # id},
          time_entries |->
              IF foreign_keys /\ \E p \in tblp : p.id = id
              THEN {IF r.project_id = Some(id)
                    THEN [r EXCEPT !.project_id = None]
                    ELSE r : r \in tble}
              ELSE tble]

\* ------------------------------------------------------------- ui/mod.rs
\* The part of the state a timer operation reads and writes, as one record:
\* AppState's fields and widgets, the time_entries table behind db_conn, and
\* the log of the call.
Cur ==
    [running_entry |-> running_entry,
     description_text |-> description_text,
     description_sensitive |-> description_sensitive,
     dropdown_selected |-> dropdown_selected,
     dropdown_sensitive |-> dropdown_sensitive,
     button_icon |-> button_icon,
     timer_label |-> timer_label,
     tray_state |-> tray_state,
     time_entries |-> tbl_time_entries,
     seq |-> seq_time_entries,
     calls |-> <<>>,
     errs |-> {},
     ret |-> FALSE]

\* TrayState::default()
TrayDefault == [is_running |-> FALSE, elapsed_time |-> 0, description |-> ""]

\* faulty variant: the distance to start_time, whichever comes first
format_elapsed_abs(start_time) ==
    IF now - start_time >= 0 THEN (now - start_time) \div Sub
    ELSE (start_time - now) \div Sub

\* faulty variant: no clamp at zero
format_elapsed_unclamped(start_time) == (now - start_time) \div Sub

\* whole seconds since start_time, never negative; the label shows it as HH:MM:SS
format_elapsed(start_time) ==
    IF now - start_time >= 0 THEN (now - start_time) \div Sub ELSE 0

\* pushes (is_running, elapsed, description) to the tray when one is set
update_tray(s) ==
    IF tray_manager
    THEN [s EXCEPT !.tray_state =
            [is_running |-> IsSome(s.running_entry),
             elapsed_time |-> IF IsSome(s.running_entry)
                              THEN format_elapsed(Unwrap(s.running_entry).start_time)
                              ELSE 0,
             description |-> IF IsSome(s.running_entry)
                             THEN Unwrap(s.running_entry).description
                             ELSE ""]]
    ELSE s

\* index 0 is "No Project", index i the i-th of AppState.projects
get_selected_project_id(selected) ==
    IF selected = 0 THEN None
    ELSE IF selected - 1 < Len(projects) THEN Some(projects[selected].id)
    ELSE None

\* faulty variant: always selects "No Project"
set_selected_project_none(s, project_id) ==
    [s EXCEPT !.dropdown_selected = 0]

\* the dropdown index of a project id, 0 when the id is not in AppState.projects
set_selected_project(s, project_id) ==
    IF project_id = None THEN [s EXCEPT !.dropdown_selected = 0]
    ELSE IF \E i \in 1..Len(projects) : projects[i].id = Unwrap(project_id)
    THEN [s EXCEPT !.dropdown_selected =
            CHOOSE i \in 1..Len(projects) :
                /\ projects[i].id = Unwrap(project_id)
                /\ \A j \in 1..(i - 1) : projects[j].id # Unwrap(project_id)]
    ELSE [s EXCEPT !.dropdown_selected = 0]

\* faulty variant: shows the stop icon and never goes back to the play icon
update_button_appearance_never_resets(s) ==
    [s EXCEPT !.button_icon = IF IsSome(s.running_entry)
                              THEN "media-playback-stop-symbolic"
                              ELSE @]

\* the stop icon while an entry runs, the play icon otherwise
update_button_appearance(s) ==
    [s EXCEPT !.button_icon = IF IsSome(s.running_entry)
                              THEN "media-playback-stop-symbolic"
                              ELSE "media-playback-start-symbolic"]

\* faulty variant: sets the label and leaves the tray alone
update_timer_display_label_only(s) ==
    [s EXCEPT !.timer_label =
        IF IsSome(s.running_entry)
        THEN format_elapsed(Unwrap(s.running_entry).start_time)
        ELSE 0]

update_timer_display(s) ==
    update_tray([s EXCEPT !.timer_label =
                    IF IsSome(s.running_entry)
                    THEN format_elapsed(Unwrap(s.running_entry).start_time)
                    ELSE 0])

\* faulty variant: a failed create drops the running entry
start_timer_drops(s, outcome) ==
    LET r == create_entry(s.time_entries, s.seq, outcome,
                          get_selected_project_id(s.dropdown_selected),
                          s.description_text, now)
        s1 == [s EXCEPT !.time_entries = r.tbl, !.seq = r.seq,
                        !.calls = Append(@, "create_entry"),
                        !.running_entry = r.entry]
    IN  IF r.ok
        THEN LET s3 == update_timer_display(update_button_appearance(s1))
             IN  [s3 EXCEPT !.description_sensitive = FALSE,
                            !.dropdown_sensitive = FALSE,
                            !.ret = TRUE]
        ELSE [s1 EXCEPT !.errs = @ \cup {"create_entry"}, !.ret = FALSE]

start_timer(s, outcome) ==
    LET start_time == now
        description == s.description_text
        project_id == get_selected_project_id(s.dropdown_selected)
        r == create_entry(s.time_entries, s.seq, outcome, project_id,
                          description, start_time)
        s1 == [s EXCEPT !.time_entries = r.tbl, !.seq = r.seq,
                        !.calls = Append(@, "create_entry")]
    IN  IF r.ok
        THEN LET s2 == [s1 EXCEPT !.running_entry = r.entry]
                 s3 == update_timer_display(update_button_appearance(s2))
             IN  [s3 EXCEPT !.description_sensitive = FALSE,
                            !.dropdown_sensitive = FALSE,
                            !.ret = TRUE]
        ELSE [s1 EXCEPT !.errs = @ \cup {"create_entry"}, !.ret = FALSE]

\* faulty variant: clears the session without persisting the end time
stop_timer_cache_only(s, outcome) ==
    IF IsSome(s.running_entry)
    THEN LET s2 == [s EXCEPT !.running_entry = None]
             s3 == update_timer_display(update_button_appearance(s2))
         IN  [s3 EXCEPT !.description_text = "",
                        !.description_sensitive = TRUE,
                        !.dropdown_selected = 0,
                        !.dropdown_sensitive = TRUE,
                        !.ret = TRUE]
    ELSE [s EXCEPT !.ret = FALSE]

\* faulty variant: the inputs are unlocked before the result is looked at
stop_timer_unlocks_first(s, outcome) ==
    IF IsSome(s.running_entry)
    THEN LET r == stop_entry(s.time_entries, outcome,
                             Unwrap(s.running_entry).id, now)
             s1 == [s EXCEPT !.time_entries = r.tbl,
                             !.calls = Append(@, "stop_entry"),
                             !.description_sensitive = TRUE,
                             !.dropdown_sensitive = TRUE]
         IN  IF r.ok
             THEN LET s2 == [s1 EXCEPT !.running_entry = None]
                      s3 == update_timer_display(update_button_appearance(s2))
                  IN  [s3 EXCEPT !.description_text = "",
                                 !.dropdown_selected = 0,
                                 !.ret = TRUE]
             ELSE [s1 EXCEPT !.errs = @ \cup {"stop_entry"}, !.ret = FALSE]
    ELSE [s EXCEPT !.ret = FALSE]

\* faulty variant: a failed stop forgets the running entry
stop_timer_forgets(s, outcome) ==
    IF IsSome(s.running_entry)
    THEN LET r == stop_entry(s.time_entries, outcome,
                             Unwrap(s.running_entry).id, now)
             s1 == [s EXCEPT !.time_entries = r.tbl,
                             !.calls = Append(@, "stop_entry")]
             s2 == [s1 EXCEPT !.running_entry = None]
             s3 == update_timer_display(update_button_appearance(s2))
             s4 == [s3 EXCEPT !.description_text = "",
                              !.description_sensitive = TRUE,
                              !.dropdown_selected = 0,
                              !.dropdown_sensitive = TRUE]
         IN  IF r.ok THEN [s4 EXCEPT !.ret = TRUE]
             ELSE [s4 EXCEPT !.errs = @ \cup {"stop_entry"}, !.ret = FALSE]
    ELSE [s EXCEPT !.ret = FALSE]

\* faulty variant: with nothing running it closes the open rows of storage
stop_timer_closes_open(s, outcome) ==
    IF IsSome(s.running_entry)
    THEN LET r == stop_entry(s.time_entries, outcome,
                             Unwrap(s.running_entry).id, now)
             s1 == [s EXCEPT !.time_entries = r.tbl,
                             !.calls = Append(@, "stop_entry")]
         IN  IF r.ok
             THEN LET s2 == [s1 EXCEPT !.running_entry = None]
                      s3 == update_timer_display(update_button_appearance(s2))
                  IN  [s3 EXCEPT !.description_text = "",
                                 !.description_sensitive = TRUE,
                                 !.dropdown_selected = 0,
                                 !.dropdown_sensitive = TRUE,
                                 !.ret = TRUE]
             ELSE [s1 EXCEPT !.errs = @ \cup {"stop_entry"}, !.ret = FALSE]
    ELSE [s EXCEPT !.time_entries =
                      {IF r.end_time = None
                       THEN [r EXCEPT !.end_time = Some(format_datetime(now))]
                       ELSE r : r \in s.time_entries},
                   !.ret = FALSE]

stop_timer(s, outcome) ==
    IF IsSome(s.running_entry)
    THEN LET end_time == now
             r == stop_entry(s.time_entries, outcome,
                             Unwrap(s.running_entry).id, end_time)
             s1 == [s EXCEPT !.time_entries = r.tbl,
                             !.calls = Append(@, "stop_entry")]
         IN  IF r.ok
             THEN LET s2 == [s1 EXCEPT !.running_entry = None]
                      s3 == update_timer_display(update_button_appearance(s2))
                  IN  [s3 EXCEPT !.description_text = "",
                                 !.description_sensitive = TRUE,
                                 !.dropdown_selected = 0,
                                 !.dropdown_sensitive = TRUE,
                                 !.ret = TRUE]
             ELSE [s1 EXCEPT !.errs = @ \cup {"stop_entry"}, !.ret = FALSE]
    ELSE [s EXCEPT !.ret = FALSE]

\* faulty variant: a toggle while running stops and starts again
toggle_timer_restarts(s, so, co) ==
    IF IsSome(s.running_entry)
    THEN LET s1 == stop_timer(s, so)
         IN  IF s1.ret THEN start_timer(s1, co) ELSE s1
    ELSE start_timer(s, co)

\* so: the outcome of the stop_entry call, co: of the create_entry call
toggle_timer(s, so, co) ==
    IF IsSome(s.running_entry) THEN stop_timer(s, so) ELSE start_timer(s, co)

\* faulty variant: gives up when the stop fails
continue_entry_aborts(s, entry, so, co) ==
    LET s1 == IF IsSome(s.running_entry) THEN stop_timer(s, so) ELSE s
        s2 == [s1 EXCEPT !.description_text = entry.description]
        s3 == set_selected_project(s2, entry.project_id)
    IN  IF IsSome(s.running_entry) /\ ~s1.ret THEN s1 ELSE start_timer(s3, co)

\* faulty variant: reopens the source entry instead of creating a new one
continue_entry_reopens(s, entry, so, co) ==
    LET s1 == IF IsSome(s.running_entry) THEN stop_timer(s, so) ELSE s
        reopened == [entry EXCEPT !.end_time = None]
        s2 == [s1 EXCEPT !.description_text = entry.description,
                         !.time_entries =
                            {IF r.id = entry.id THEN [r EXCEPT !.end_time = None]
                             ELSE r : r \in @},
                         !.running_entry = Some(reopened),
                         !.calls = Append(@, "reopen_entry")]
        s3 == update_timer_display(update_button_appearance(s2))
    IN  [s3 EXCEPT !.description_sensitive = FALSE,
                   !.dropdown_sensitive = FALSE,
                   !.ret = TRUE]

\* faulty variant: starts the new entry without stopping the running one
continue_entry_keeps_running(s, entry, so, co) ==
    LET s2 == [s EXCEPT !.description_text = entry.description]
        s3 == set_selected_project(s2, entry.project_id)
    IN  start_timer(s3, co)

continue_entry(s, entry, so, co) ==
    LET s1 == IF IsSome(s.running_entry) THEN stop_timer(s, so) ELSE s
        s2 == [s1 EXCEPT !.description_text = entry.description]
        s3 == set_selected_project(s2, entry.project_id)
    IN  start_timer(s3, co)

\* faulty variant: no check for the running entry
delete_entry_unguarded(s, outcome, entry_id) ==
    LET r == delete_entry_row(s.time_entries, outcome, entry_id)
        s1 == [s EXCEPT !.time_entries = r.tbl,
                        !.calls = Append(@, "delete_entry")]
    IN  IF r.ok THEN [s1 EXCEPT !.ret = TRUE]
        ELSE [s1 EXCEPT !.errs = @ \cup {"delete_entry"}, !.ret = FALSE]

\* faulty variant: the running entry is refused only after the storage call
delete_entry_checks_late(s, outcome, entry_id) ==
    IF IsSome(s.running_entry) /\ Unwrap(s.running_entry).id = entry_id
    THEN [delete_entry_unguarded(s, outcome, entry_id) EXCEPT !.ret = FALSE]
    ELSE delete_entry_unguarded(s, outcome, entry_id)

\* faulty variant: a failed storage delete is reported as done
delete_entry_ignores_error(s, outcome, entry_id) ==
    IF IsSome(s.running_entry) /\ Unwrap(s.running_entry).id = entry_id
    THEN [s EXCEPT !.ret = FALSE]
    ELSE LET r == delete_entry_row(s.time_entries, outcome, entry_id)
             s1 == [s EXCEPT !.time_entries = r.tbl,
                             !.calls = Append(@, "delete_entry")]
         IN  IF r.ok THEN [s1 EXCEPT !.ret = TRUE]
             ELSE [s1 EXCEPT !.errs = @ \cup {"delete_entry"}, !.ret = TRUE]

delete_entry(s, outcome, entry_id) ==
    IF IsSome(s.running_entry) /\ Unwrap(s.running_entry).id = entry_id
    THEN [s EXCEPT !.ret = FALSE]
    ELSE LET r == delete_entry_row(s.time_entries, outcome, entry_id)
             s1 == [s EXCEPT !.time_entries = r.tbl,
                             !.calls = Append(@, "delete_entry")]
         IN  IF r.ok THEN [s1 EXCEPT !.ret = TRUE]
             ELSE [s1 EXCEPT !.errs = @ \cup {"delete_entry"}, !.ret = FALSE]

\* calendar dates are counted in days from 1970-01-01, a Thursday:
\* Weekday::num_days_from_monday of a date
num_days_from_monday(d) == (d + 3) % 7

\* faulty variant: the week begins on Sunday
get_current_week_range_from_sunday(today) ==
    LET days_since_sunday == (today + 4) % 7
        monday == today - days_since_sunday
    IN  [monday |-> monday, sunday |-> monday + 6]

\* the local date today is the caller's reading of Local::now()
get_current_week_range(today) ==
    LET days_since_monday == num_days_from_monday(today)
        monday == today - days_since_monday
        sunday == monday + 6
    IN  [monday |-> monday, sunday |-> sunday]

\* Duration::num_seconds of a difference of instants: whole seconds, cut
\* towards zero
num_seconds(d) == IF d >= 0 THEN d \div Sub ELSE 0 - ((0 - d) \div Sub)

\* faulty variant: no max(0)
entry_seconds_unclamped(e) ==
    num_seconds((IF e.end_time = None THEN now ELSE Unwrap(e.end_time))
                - e.start_time)

\* end_time.unwrap_or_else(Utc::now) - start_time in seconds, .max(0)
entry_seconds(e) ==
    LET end == IF e.end_time = None THEN now ELSE Unwrap(e.end_time)
        duration == num_seconds(end - e.start_time)
    IN  IF duration > 0 THEN duration ELSE 0

RECURSIVE calculate_entries_duration(_)
calculate_entries_duration(entries) ==
    IF entries = <<>> THEN 0
    ELSE entry_seconds(Head(entries)) + calculate_entries_duration(Tail(entries))

\* project_times[pid] once the loop of create_project_breakdown is through
RECURSIVE project_time(_, _)
project_time(entries, pid) ==
    IF entries = <<>> THEN 0
    ELSE (IF Head(entries).project_id = pid THEN entry_seconds(Head(entries))
          ELSE 0) + project_time(Tail(entries), pid)

\* project_info[pid]: the project's name and color, or the neutral pair when
\* the entry has no project or get_project_by_id finds none
project_info(pid) ==
    IF \E p \in tbl_projects : Some(p.id) = pid
    THEN LET p == CHOOSE q \in tbl_projects : Some(q.id) = pid
         IN  [name |-> p.name, color |-> p.color]
    ELSE [name |-> "No Project", color |-> "#888888"]

\* the sequences of the members of S, each once, durations not increasing
Descending(S) ==
    {gs \in [1..Cardinality(S) -> S] :
        /\ \A i, j \in 1..Cardinality(S) : i # j => gs[i] # gs[j]
        /\ \A i, j \in 1..Cardinality(S) :
              i < j => gs[i].duration >= gs[j].duration}

\* faulty variant: one group per entry
create_project_breakdown_ungrouped(entries) ==
    Descending({[project_id |-> entries[i].project_id,
                 duration |-> entry_seconds(entries[i]),
                 info |-> project_info(entries[i].project_id),
                 of |-> i] : i \in DOMAIN entries})

\* The rows of the breakdown, top to bottom.  project_times is a HashMap, whose
\* iteration order is arbitrary, and sort_by is stable: the rows may come in
\* any order in which the durations do not increase.
create_project_breakdown(entries) ==
    Descending({[project_id |-> pid,
                 duration |-> project_time(entries, pid),
                 info |-> project_info(pid)] :
                   pid \in {entries[i].project_id : i \in DOMAIN entries}})

\* refresh_projects: reloads AppState.projects and rebuilds the dropdown model
refresh_projects(ps) ==
    /\ projects' = ps
    /\ dropdown_selected' = 0

\* ------------------------------------------------------------- steps
CreateOutcomes == {"ok", "insert_fail", "readback_fail"}
WriteOutcomes == {"ok", "fail"}
Colors == {"#3498db"}

RetOf(b) == IF b THEN "true" ELSE "false"

\* refresh_view: the list is rebuilt from the rows in storage
refresh_view(tbl) == {row_to_entry(r) : r \in tbl}

\* Writes the record a timer operation returns back to the state, q being the
\* closures left queued on the main context.  The handlers that call the
\* operation rebuild the entries list when it returns true.
CommitWith(name, a, s, r, q) ==
    /\ running_entry' = s.running_entry
    /\ description_text' = s.description_text
    /\ description_sensitive' = s.description_sensitive
    /\ dropdown_selected' = s.dropdown_selected
    /\ dropdown_sensitive' = s.dropdown_sensitive
    /\ button_icon' = s.button_icon
    /\ timer_label' = s.timer_label
    /\ tray_state' = s.tray_state
    /\ tbl_time_entries' = s.time_entries
    /\ seq_time_entries' = s.seq
    /\ entries_list' = IF r = "true" THEN refresh_view(s.time_entries)
                       ELSE entries_list
    /\ op' = name
    /\ arg' = a
    /\ ret' = r
    /\ calls' = s.calls
    /\ errs' = s.errs
    /\ main_context' = q
    /\ UNCHANGED <<build_vars, now, tbl_projects, seq_projects, proc, projects,
                   tray_manager>>

\* a handler that runs on the main loop and queues nothing
Commit(name, a, s, r) == CommitWith(name, a, s, r, main_context)

\* AppState::new and the widget constructors; the process state is p
AppNew(p, tray) ==
    /\ proc' = p
    /\ running_entry' = None
    /\ description_text' = ""
    /\ description_sensitive' = TRUE
    /\ dropdown_selected' = 0
    /\ dropdown_sensitive' = TRUE
    /\ button_icon' = "media-playback-start-symbolic"
    /\ timer_label' = 0
    /\ tray_manager' = tray
    /\ tray_state' = TrayDefault
    /\ entries_list' = IF p = "running" THEN refresh_view(tbl_time_entries) ELSE {}
    /\ main_context' = <<>>

\* the state build_window leaves over a database holding the projects tblp
\* (seqp rows ever inserted) and no time entry
InitOver(tblp, seqp) ==
    /\ foreign_keys \in BOOLEAN
    /\ edition2024 \in BOOLEAN
    /\ now = 0
    /\ tbl_projects = tblp /\ seq_projects = seqp
    /\ tbl_time_entries = {} /\ seq_time_entries = 0
    /\ proc = "running"
    /\ running_entry = None
    /\ projects \in get_all_projects(tblp)
    /\ description_text = ""
    /\ description_sensitive = TRUE
    /\ dropdown_selected = 0
    /\ dropdown_sensitive = TRUE
    /\ button_icon = "media-playback-start-symbolic"
    /\ timer_label = 0
    /\ tray_manager = TRUE
    /\ tray_state = TrayDefault
    /\ entries_list = {}
    /\ main_context = <<>>
    /\ op = "build_window" /\ arg = None /\ ret = "unit"
    /\ calls = <<"get_all_projects", "get_running_entry">>
    /\ errs = {}

\* first start: init_db has just created the empty tables
Init == InitOver({}, 0)

\* a start over a database in which one project was created earlier
InitWork ==
    InitOver({[id |-> 1, name |-> "Work", color |-> "#3498db"]}, 1)

\* the wall clock moves on
AdvanceClock ==
    /\ now < MaxNow
    /\ now' = now + 1
    /\ op' = "clock" /\ arg' = None /\ ret' = "unit" /\ calls' = <<>> /\ errs' = {}
    /\ UNCHANGED <<build_vars, main_context, db_vars, proc, app_vars>>

\* the user types into the description field
EditDescription ==
    /\ proc = "running" /\ description_sensitive
    /\ \E d \in Descriptions : description_text' = d
    /\ op' = "input" /\ arg' = None /\ ret' = "unit" /\ calls' = <<>> /\ errs' = {}
    /\ UNCHANGED <<build_vars, main_context, now, db_vars, proc, running_entry, projects,
                   description_sensitive, dropdown_selected, dropdown_sensitive,
                   button_icon, timer_label, tray_manager, tray_state,
                   entries_list>>

\* the user picks an item of the project dropdown
SelectProject ==
    /\ proc = "running" /\ dropdown_sensitive
    /\ \E i \in 0..Len(projects) : dropdown_selected' = i
    /\ op' = "input" /\ arg' = None /\ ret' = "unit" /\ calls' = <<>> /\ errs' = {}
    /\ UNCHANGED <<build_vars, main_context, now, db_vars, proc, running_entry, projects,
                   description_text, description_sensitive, dropdown_sensitive,
                   button_icon, timer_label, tray_manager, tray_state,
                   entries_list>>

StartTimer ==
    /\ proc = "running" /\ seq_time_entries < MaxEntries
    /\ \E co \in CreateOutcomes : LET s == start_timer(Cur, co)
          IN  Commit("start_timer", None, s, RetOf(s.ret))

StopTimer ==
    /\ proc = "running"
    /\ \E so \in WriteOutcomes : LET s == stop_timer(Cur, so)
          IN  Commit("stop_timer", None, s, RetOf(s.ret))

ToggleTimer ==
    /\ proc = "running"
    /\ IsSome(running_entry) \/ seq_time_entries < MaxEntries
    /\ \E so \in WriteOutcomes, co \in CreateOutcomes :
          LET s == toggle_timer(Cur, so, co)
          IN  Commit("toggle_timer", None, s, RetOf(s.ret))

\* the source is an entry as read from storage now, or as a row of the entries
\* list captured it when the list was last rebuilt
ContinueEntry ==
    /\ proc = "running" /\ seq_time_entries < MaxEntries
    /\ \E entry \in refresh_view(tbl_time_entries) \cup entries_list,
          so \in WriteOutcomes, co \in CreateOutcomes :
          LET s == continue_entry(Cur, entry, so, co)
          IN  Commit("continue_entry", Some(entry), s, RetOf(s.ret))

DeleteEntry ==
    /\ proc = "running"
    /\ \E id \in 1..seq_time_entries, do \in WriteOutcomes :
          LET s == delete_entry(Cur, do, id)
          IN  Commit("delete_entry", Some(id), s, RetOf(s.ret))

\* the 1-second callback of setup_timer_update
Tick ==
    /\ proc = "running"
    /\ Commit("tick", None, update_timer_display(Cur), "unit")

\* a direct call of db::get_running_entry on the open connection
GetRunningEntry ==
    /\ proc = "running"
    /\ \E res \in get_running_entry(tbl_time_entries) :
          /\ op' = "get_running_entry" /\ arg' = res /\ ret' = "ok"
          /\ calls' = <<"get_running_entry">> /\ errs' = {}
    /\ UNCHANGED <<build_vars, main_context, now, db_vars, proc, app_vars>>

\* the add button of the projects dialog.  After a successful create the else
\* branch asks for borrow_mut while, before edition 2024, the Ref taken in the
\* if-let scrutinee is still alive: the handler panics there.
AddProject ==
    /\ proc = "running" /\ seq_projects < MaxProjects
    /\ \E name \in ProjectNames, color \in Colors, co \in CreateOutcomes :
          LET r == create_project(tbl_projects, seq_projects, co, name, color)
          IN  /\ tbl_projects' = r.tbl
              /\ seq_projects' = r.seq
              /\ op' = "add_project" /\ arg' = None
              /\ calls' = <<"create_project">>
              /\ errs' = IF r.ok THEN {} ELSE {"create_project"}
              /\ IF ~r.ok
                 THEN /\ ret' = "unit"
                      /\ UNCHANGED <<proc, app_vars>>
                 ELSE IF edition2024
                 THEN /\ ret' = "unit"
                      /\ \E ps \in get_all_projects(r.tbl) : refresh_projects(ps)
                      /\ UNCHANGED <<proc, running_entry, description_text,
                                     description_sensitive, dropdown_sensitive,
                                     button_icon, timer_label, tray_manager,
                                     tray_state, entries_list>>
                 ELSE /\ ret' = "panic"
                      /\ projects' = <<>>
                      /\ AppNew("panicked", FALSE)
    /\ UNCHANGED <<build_vars, main_context, now, tbl_time_entries, seq_time_entries>>

\* the delete response of a project row in the projects dialog
DeleteProjectRow ==
    /\ proc = "running"
    /\ \E p \in tbl_projects, do \in WriteOutcomes :
          LET r == delete_project(tbl_projects, tbl_time_entries, do, p.id)
          IN  /\ tbl_projects' = r.projects
              /\ tbl_time_entries' = r.time_entries
              /\ op' = "delete_project" /\ arg' = Some(p.id)
              /\ calls' = <<"delete_project">>
              /\ errs' = IF r.ok THEN {} ELSE {"delete_project"}
              /\ IF ~r.ok
                 THEN /\ ret' = "unit"
                      /\ UNCHANGED <<proc, app_vars>>
                 ELSE IF edition2024
                 THEN /\ ret' = "unit"
                      /\ \E ps \in get_all_projects(r.projects) : refresh_projects(ps)
                      /\ UNCHANGED <<proc, running_entry, description_text,
                                     description_sensitive, dropdown_sensitive,
                                     button_icon, timer_label, tray_manager,
                                     tray_state, entries_list>>
                 ELSE /\ ret' = "panic"
                      /\ projects' = <<>>
                      /\ AppNew("panicked", FALSE)
    /\ UNCHANGED <<build_vars, main_context, now, seq_projects, seq_time_entries>>

\* the process ends (quit from the tray, or killed)
Quit ==
    /\ proc = "running"
    /\ projects' = <<>>
    /\ AppNew("exited", FALSE)
    /\ op' = "quit" /\ arg' = None /\ ret' = "unit" /\ calls' = <<>> /\ errs' = {}
    /\ UNCHANGED <<build_vars, now, db_vars>>

\* A new process: build_window opens the same database, loads the projects,
\* builds AppState and restores the running entry.  lo is the outcome of the
\* get_running_entry call.  With Ok(Some(entry)) the body of the if-let sets the
\* widgets and then asks for borrow_mut while the Ref taken in the scrutinee is
\* still alive: it panics before running_entry is assigned.
build_window ==
    /\ proc # "running"
    /\ \E lo \in WriteOutcomes, res \in get_running_entry(tbl_time_entries),
          ps \in get_all_projects(tbl_projects) :
          /\ op' = "build_window" /\ arg' = None
          /\ calls' = <<"get_all_projects", "get_running_entry">>
          /\ errs' = IF lo = "ok" THEN {} ELSE {"get_running_entry"}
          /\ IF lo = "ok" /\ IsSome(res)
             THEN /\ ret' = "panic"
                  /\ projects' = <<>>
                  /\ AppNew("panicked", FALSE)
             ELSE /\ ret' = "unit"
                  /\ projects' = ps
                  /\ AppNew("running", TRUE)
    /\ UNCHANGED <<build_vars, now, db_vars>>

\* the timer/session core: every step but those of the projects dialog
NextCore ==
    \/ AdvanceClock
    \/ EditDescription
    \/ SelectProject
    \/ StartTimer
    \/ StopTimer
    \/ ToggleTimer
    \/ ContinueEntry
    \/ DeleteEntry
    \/ Tick
    \/ GetRunningEntry
    \/ Quit
    \/ build_window

Next ==
    \/ AdvanceClock
    \/ EditDescription
    \/ SelectProject
    \/ StartTimer
    \/ StopTimer
    \/ ToggleTimer
    \/ ContinueEntry
    \/ DeleteEntry
    \/ Tick
    \/ GetRunningEntry
    \/ AddProject
    \/ DeleteProjectRow
    \/ Quit
    \/ build_window

Spec == Init /\ [][Next]_vars

\* The core over a fresh database or over one that holds a project.  No core
\* step reads the edition, and none deletes a project, so that every stored
\* project_id names a stored project and foreign-key enforcement never acts:
\* both are fixed here.
InitCore == (Init \/ InitWork) /\ ~edition2024 /\ foreign_keys

\* Normal operation: start_timer only while nothing runs, stop_timer only while
\* something does, toggle_timer at any time; every storage call succeeds.
AltStart ==
    /\ proc = "running" /\ running_entry = None
    /\ seq_time_entries < MaxEntries
    /\ LET s == start_timer(Cur, "ok")
       IN  Commit("start_timer", None, s, RetOf(s.ret))

AltStop ==
    /\ proc = "running" /\ IsSome(running_entry)
    /\ LET s == stop_timer(Cur, "ok")
       IN  Commit("stop_timer", None, s, RetOf(s.ret))

AltToggle ==
    /\ proc = "running"
    /\ IsSome(running_entry) \/ seq_time_entries < MaxEntries
    /\ LET s == toggle_timer(Cur, "ok", "ok")
       IN  Commit("toggle_timer", None, s, RetOf(s.ret))

NextAlt ==
    \/ AdvanceClock
    \/ EditDescription
    \/ SelectProject
    \/ AltStart
    \/ AltStop
    \/ AltToggle

SpecAlt == InitCore /\ [][NextAlt]_vars

SpecCore == InitCore /\ [][NextCore]_vars

\* The projects dialog together with the operations that seed an entry with a
\* project, in one session of a build whose dialog handlers complete and whose
\* SQLite enforces foreign keys, so that deleting a project clears the
\* project_id of its stored entries (ON DELETE SET NULL).
NextProjects ==
    \/ AddProject
    \/ DeleteProjectRow
    \/ EditDescription
    \/ SelectProject
    \/ ToggleTimer
    \/ ContinueEntry

InitProjects == Init /\ edition2024 /\ foreign_keys

SpecProjects == InitProjects /\ [][NextProjects]_vars

\* The wall clock is set back (NTP correction, manual change): Utc::now() is
\* not monotonic, which format_elapsed allows for with max(0).
ClockBack ==
    /\ now > 0
    /\ \E t \in 0..(now - 1) : now' = t
    /\ op' = "clock" /\ arg' = None /\ ret' = "unit" /\ calls' = <<>> /\ errs' = {}
    /\ UNCHANGED <<build_vars, main_context, db_vars, proc, app_vars>>

\* the operations that create and stop entries and the tick, under a wall
\* clock that may also step back
NextSkew ==
    \/ AdvanceClock
    \/ ClockBack
    \/ StartTimer
    \/ StopTimer
    \/ ToggleTimer
    \/ ContinueEntry
    \/ DeleteEntry
    \/ Tick

SpecSkew == InitCore /\ [][NextSkew]_vars

\* the stop asked for again right after a stop that failed in storage
RetryStop ==
    /\ proc = "running" /\ IsSome(running_entry)
    /\ op \in {"stop_timer", "toggle_timer"} /\ ret = "false"
    /\ \E so \in WriteOutcomes : LET s == stop_timer(Cur, so)
          IN  Commit("stop_timer", Some("retry"), s, RetOf(s.ret))

\* a stop asked for while an entry runs and storage works
StopWorks ==
    /\ proc = "running" /\ IsSome(running_entry)
    /\ LET s == stop_timer(Cur, "ok")
       IN  Commit("stop_timer", None, s, RetOf(s.ret))

\* one session in which stops fail and are asked for again
NextRetry ==
    \/ AdvanceClock
    \/ EditDescription
    \/ ToggleTimer
    \/ StopTimer
    \/ RetryStop
    \/ Tick

\* the user keeps asking and storage recovers: while an entry runs, a stop
\* that storage carries out is eventually made
SpecRetry == InitCore /\ [][NextRetry]_vars /\ WF_vars(StopWorks)

\* ------------------------------------------------------------- tray thread
\* closures that may wait on the main context at one time
MaxQueue == 2

\* glib::MainContext::default().invoke(f) called from the tray thread, which
\* does not own the main context: f is queued for the main loop
invoke(f) ==
    /\ main_context' = Append(main_context, f)
    /\ op' = "tray_activate" /\ arg' = Some(f) /\ ret' = "unit"
    /\ calls' = <<>> /\ errs' = {}
    /\ UNCHANGED <<build_vars, now, db_vars, proc, app_vars>>

\* faulty variant: the callback runs toggle_timer on the tray thread itself
on_toggle_timer_direct ==
    \E so \in WriteOutcomes, co \in CreateOutcomes :
        LET s == toggle_timer(Cur, so, co)
        IN  CommitWith("tray_activate", Some("toggle_timer"), s, RetOf(s.ret),
                       main_context)

\* the three callbacks handed to TrayManager::start
on_toggle_timer == invoke("toggle_timer")

on_show_window == invoke("show_window")

on_quit == invoke("quit")

\* a click on a tray menu item: its activate closure calls the callback, on the
\* thread of the tray service
TrayToggleTimer ==
    /\ proc = "running" /\ tray_manager /\ Len(main_context) < MaxQueue
    /\ IsSome(running_entry) \/ seq_time_entries < MaxEntries
    /\ on_toggle_timer

TrayShowWindow ==
    /\ proc = "running" /\ tray_manager /\ Len(main_context) < MaxQueue
    /\ on_show_window

TrayQuit ==
    /\ proc = "running" /\ tray_manager /\ Len(main_context) < MaxQueue
    /\ on_quit

\* the main loop runs the oldest queued closure.  The toggle closure is the
\* button handler's body: toggle_timer, then refresh_view when it returned true
DispatchToggleTimer ==
    /\ proc = "running" /\ main_context # <<>>
    /\ Head(main_context) = "toggle_timer"
    /\ IsSome(running_entry) \/ seq_time_entries < MaxEntries
    /\ \E so \in WriteOutcomes, co \in CreateOutcomes :
          LET s == toggle_timer(Cur, so, co)
          IN  CommitWith("toggle_timer", Some("tray"), s, RetOf(s.ret),
                         Tail(main_context))

\* set_visible(true), present() and release(): the window is not part of the
\* modelled state
DispatchShowWindow ==
    /\ proc = "running" /\ main_context # <<>>
    /\ Head(main_context) = "show_window"
    /\ main_context' = Tail(main_context)
    /\ op' = "show_window" /\ arg' = Some("tray") /\ ret' = "unit"
    /\ calls' = <<>> /\ errs' = {}
    /\ UNCHANGED <<build_vars, now, db_vars, proc, app_vars>>

\* app.quit(): the process ends, whatever was still queued is dropped
DispatchQuit ==
    /\ proc = "running" /\ main_context # <<>>
    /\ Head(main_context) = "quit"
    /\ projects' = <<>>
    /\ AppNew("exited", FALSE)
    /\ op' = "quit" /\ arg' = Some("tray") /\ ret' = "unit"
    /\ calls' = <<>> /\ errs' = {}
    /\ UNCHANGED <<build_vars, now, db_vars>>

\* the main window's button and the tray menu side by side, over restarts
NextTray ==
    \/ AdvanceClock
    \/ EditDescription
    \/ ToggleTimer
    \/ Tick
    \/ TrayToggleTimer
    \/ TrayShowWindow
    \/ TrayQuit
    \/ DispatchToggleTimer
    \/ DispatchShowWindow
    \/ DispatchQuit
    \/ build_window

SpecTray == InitCore /\ [][NextTray]_vars

\* a continue_entry whose INSERT fails: no row is added, so it can be made
\* however many rows there are
ContinueInsertFails ==
    /\ proc = "running"
    /\ \E entry \in refresh_view(tbl_time_entries) \cup entries_list,
          so \in WriteOutcomes :
          LET s == continue_entry(Cur, entry, so, "insert_fail")
          IN  Commit("continue_entry", Some(entry), s, RetOf(s.ret))

\* the inputs, the button and the rows of the list in one session
NextLock ==
    \/ EditDescription
    \/ ToggleTimer
    \/ ContinueEntry
    \/ ContinueInsertFails
    \/ Tick

SpecLock == InitCore /\ [][NextLock]_vars

\* the label menu() gives the toggle item, from the TrayState last pushed
toggle_label == IF tray_state.is_running THEN "Stop Timer" ELSE "Start Timer"

\* A click on the toggle item of the tray menu, with the label the item showed
\* kept beside the queued closure.
TrayMenuActivate ==
    /\ proc = "running" /\ tray_manager /\ Len(main_context) < MaxQueue
    /\ main_context' = Append(main_context,
                              [f |-> "toggle_timer", label |-> toggle_label])
    /\ op' = "tray_activate" /\ arg' = Some(toggle_label) /\ ret' = "unit"
    /\ calls' = <<>> /\ errs' = {}
    /\ UNCHANGED <<build_vars, now, db_vars, proc, app_vars>>

\* the main loop runs the oldest queued toggle closure
TrayMenuDispatch ==
    /\ proc = "running" /\ main_context # <<>>
    /\ IsSome(running_entry) \/ seq_time_entries < MaxEntries
    /\ \E so \in WriteOutcomes, co \in CreateOutcomes :
          LET s == toggle_timer(Cur, so, co)
          IN  CommitWith("toggle_timer", Some(Head(main_context).label), s,
                         RetOf(s.ret), Tail(main_context))

\* Escape in the main window: stop_timer when an entry runs
EscapeStop == IsSome(running_entry) /\ StopTimer

\* the tray menu beside the button and the keys of the main window
NextTrayMenu ==
    \/ AdvanceClock
    \/ ToggleTimer
    \/ EscapeStop
    \/ Tick
    \/ TrayMenuActivate
    \/ TrayMenuDispatch

SpecTrayMenu == InitCore /\ [][NextTrayMenu]_vars

\* What the user can do when every storage call succeeds: the button and the
\* Ctrl+S / Space keys call toggle_timer, Escape calls stop_timer when an entry
\* runs, the rows of the list call continue_entry and delete_entry, the tray
\* menu queues a toggle for the main loop.
UiToggle == ToggleTimer /\ errs' = {}

UiEscape == EscapeStop /\ errs' = {}

UiContinue == ContinueEntry /\ errs' = {}

UiDelete == DeleteEntry /\ errs' = {}

UiTrayToggle == DispatchToggleTimer /\ errs' = {}

\* a new process whose get_running_entry call succeeds
UiRestart == build_window /\ errs' = {}

NextUi ==
    \/ AdvanceClock
    \/ EditDescription
    \/ UiToggle
    \/ UiEscape
    \/ UiContinue
    \/ UiDelete
    \/ Tick
    \/ TrayToggleTimer
    \/ UiTrayToggle
    \/ Quit
    \/ UiRestart

SpecUi == InitCore /\ [][NextUi]_vars

\* the offsets of the local timezone from UTC, in seconds: behind UTC, UTC,
\* ahead of UTC (a model day has DaySecs seconds)
Offsets == {0 - 1, 0, 1}

\* Local::now().date_naive() in a timezone of offset tz
local_today(tz) == date((now \div Sub) + tz)

\* The start/stop button in the Today view: toggle_timer, and when it returned
\* true refresh_today_view lists get_entries_for_date of the local date.  The
\* step logs the timezone, the date asked for and the entries listed.
TodayToggle ==
    /\ proc = "running"
    /\ IsSome(running_entry) \/ seq_time_entries < MaxEntries
    /\ \E so \in WriteOutcomes, co \in CreateOutcomes, tz \in Offsets :
          LET s == toggle_timer(Cur, so, co)
              today == local_today(tz)
          IN  \E view \in get_entries_for_date(s.time_entries, today) :
                 Commit("toggle_timer",
                        Some([tz |-> tz, today |-> today,
                              view |-> IF s.ret THEN Some(view) ELSE None]),
                        s, RetOf(s.ret))

\* the button pressed at any time of the day in any timezone
NextToday ==
    \/ AdvanceClock
    \/ EditDescription
    \/ TodayToggle
    \/ Tick

SpecToday == InitCore /\ [][NextToday]_vars

\* ------------------------------------------------------------- db calls
\* The persistence layer called directly on an open connection, as its tests
\* do.  The log's arg is the id passed and the storage fault injected.
DbResult(ok) == IF ok THEN "ok" ELSE "err"

DbLog(name, a, ok) ==
    /\ op' = name /\ arg' = Some(a) /\ ret' = DbResult(ok)
    /\ calls' = <<name>>
    /\ errs' = IF ok THEN {} ELSE {name}

DbCreateProject ==
    /\ seq_projects < MaxProjects
    /\ \E name \in {"Work"}, color \in Colors, co \in CreateOutcomes :
          LET r == create_project(tbl_projects, seq_projects, co, name, color)
          IN  /\ tbl_projects' = r.tbl
              /\ seq_projects' = r.seq
              /\ DbLog("db::create_project", [id |-> seq_projects + 1, fault |-> co],
                       r.ok)
    /\ UNCHANGED <<build_vars, main_context, now, tbl_time_entries, seq_time_entries, proc,
                   app_vars>>

DbCreateEntry ==
    /\ seq_time_entries < MaxEntries
    /\ \E project_id \in {None} \cup {Some(i) : i \in 1..MaxProjects},
          description \in {"coding"}, co \in CreateOutcomes :
          LET r == create_entry(tbl_time_entries, seq_time_entries, co,
                                project_id, description, now)
          IN  /\ tbl_time_entries' = r.tbl
              /\ seq_time_entries' = r.seq
              /\ DbLog("db::create_entry",
                       [id |-> seq_time_entries + 1, fault |-> co], r.ok)
    /\ UNCHANGED <<build_vars, main_context, now, tbl_projects, seq_projects, proc, app_vars>>

DbStopEntry ==
    /\ \E id \in 1..(MaxEntries + 1), wo \in WriteOutcomes :
          LET r == stop_entry(tbl_time_entries, wo, id, now)
          IN  /\ tbl_time_entries' = r.tbl
              /\ DbLog("db::stop_entry", [id |-> id, fault |-> wo], r.ok)
    /\ UNCHANGED <<build_vars, main_context, now, tbl_projects, seq_projects, seq_time_entries,
                   proc, app_vars>>

DbDeleteEntry ==
    /\ \E id \in 1..(MaxEntries + 1), wo \in WriteOutcomes :
          LET r == delete_entry_row(tbl_time_entries, wo, id)
          IN  /\ tbl_time_entries' = r.tbl
              /\ DbLog("db::delete_entry", [id |-> id, fault |-> wo], r.ok)
    /\ UNCHANGED <<build_vars, main_context, now, tbl_projects, seq_projects, seq_time_entries,
                   proc, app_vars>>

DbDeleteProject ==
    /\ \E id \in 1..(MaxProjects + 1), wo \in WriteOutcomes :
          LET r == delete_project(tbl_projects, tbl_time_entries, wo, id)
          IN  /\ tbl_projects' = r.projects
              /\ tbl_time_entries' = r.time_entries
              /\ DbLog("db::delete_project", [id |-> id, fault |-> wo], r.ok)
    /\ UNCHANGED <<build_vars, main_context, now, seq_projects, seq_time_entries, proc,
                   app_vars>>

\* the instants a caller passes as start_time or end_time: the first and the
\* last clock tick of each second of two calendar days
Stamps == {sec * Sub + f : sec \in 0..(2 * DaySecs - 1), f \in {0, Sub - 1}}

\* create_entry with a start_time of the caller's choice among S; the log
\* keeps the instant passed and the TimeEntry returned
DbCreateEntryIn(S) ==
    /\ seq_time_entries < MaxEntries
    /\ \E start_time \in S, co \in CreateOutcomes,
          project_id \in {None} \cup {Some(p.id) : p \in tbl_projects} :
          LET r == create_entry(tbl_time_entries, seq_time_entries, co,
                                project_id, "coding", start_time)
          IN  /\ tbl_time_entries' = r.tbl
              /\ seq_time_entries' = r.seq
              /\ op' = "db::create_entry"
              /\ arg' = Some([id |-> seq_time_entries + 1, at |-> start_time])
              /\ ret' = [ok |-> r.ok, value |-> r.entry]
              /\ calls' = <<"db::create_entry">>
              /\ errs' = IF r.ok THEN {} ELSE {"db::create_entry"}
    /\ UNCHANGED <<build_vars, main_context, now, tbl_projects, seq_projects,
                   proc, app_vars>>

DbCreateEntryAt == DbCreateEntryIn(Stamps)

\* stop_entry with an end_time of the caller's choice among S
DbStopEntryIn(S) ==
    /\ \E id \in 1..seq_time_entries, end_time \in S, wo \in WriteOutcomes :
          LET r == stop_entry(tbl_time_entries, wo, id, end_time)
          IN  /\ tbl_time_entries' = r.tbl
              /\ op' = "db::stop_entry"
              /\ arg' = Some([id |-> id, at |-> end_time])
              /\ ret' = [ok |-> r.ok, value |-> None]
              /\ calls' = <<"db::stop_entry">>
              /\ errs' = IF r.ok THEN {} ELSE {"db::stop_entry"}
    /\ UNCHANGED <<build_vars, main_context, now, tbl_projects, seq_projects,
                   seq_time_entries, proc, app_vars>>

DbStopEntryAt == DbStopEntryIn(Stamps)

\* get_running_entry; the log keeps the Option<TimeEntry> returned
DbGetRunningEntry ==
    /\ \E res \in get_running_entry(tbl_time_entries) :
          /\ op' = "db::get_running_entry" /\ arg' = None
          /\ ret' = [ok |-> TRUE, value |-> res]
          /\ calls' = <<"db::get_running_entry">> /\ errs' = {}
    /\ UNCHANGED <<build_vars, main_context, now, db_vars, proc, app_vars>>

\* get_entries_for_date; the log keeps the date asked for and the Vec returned
DbGetEntriesForDate ==
    /\ \E d \in 0..2 : \E res \in get_entries_for_date(tbl_time_entries, d) :
          /\ op' = "db::get_entries_for_date" /\ arg' = Some([date |-> d])
          /\ ret' = [ok |-> TRUE, value |-> res]
          /\ calls' = <<"db::get_entries_for_date">> /\ errs' = {}
    /\ UNCHANGED <<build_vars, main_context, now, db_vars, proc, app_vars>>

\* entries written with instants of the caller's choice and read back
NextStamps ==
    \/ DbCreateEntryAt
    \/ DbStopEntryAt
    \/ DbGetRunningEntry
    \/ DbGetEntriesForDate

\* the vectors of all stored entries, in any order
AllEntries(tbl) ==
    {[i \in 1..Cardinality(tbl) |-> row_to_entry(rs[i])] :
        rs \in {ps \in [1..Cardinality(tbl) -> tbl] :
                  \A i, j \in 1..Cardinality(tbl) : i # j => ps[i] # ps[j]}}

\* the summary of a vector of entries read from storage: its total and its
\* project breakdown, both computed at the instant now
Summary ==
    /\ \E entries \in AllEntries(tbl_time_entries) :
          \E rows \in create_project_breakdown(entries) :
             /\ op' = "summary" /\ arg' = Some(entries)
             /\ ret' = [total |-> calculate_entries_duration(entries),
                        breakdown |-> rows]
             /\ calls' = <<>> /\ errs' = {}
    /\ UNCHANGED <<build_vars, main_context, now, db_vars, proc, app_vars>>

\* the instants passed here: the first second and the next
Instants == {0, Sub}

SummaryCreateEntry == DbCreateEntryIn(Instants)

SummaryStopEntry == DbStopEntryIn(Instants)

\* entries of two projects written with instants of the caller's choice,
\* earlier or later than now, and summed up while the clock runs
NextSummary ==
    \/ AdvanceClock
    \/ SummaryCreateEntry
    \/ SummaryStopEntry
    \/ Summary

\* the names the tests of the persistence layer give their projects
DbProjectNames == {"Learning", "Personal", "Work"}

\* create_project with a name of the caller's choice; one more project than
\* the window's dialog is given, so that the order of the listing shows
DbCreateProjectNamed ==
    /\ seq_projects <= MaxProjects
    /\ \E name \in DbProjectNames, color \in Colors, co \in CreateOutcomes :
          LET r == create_project(tbl_projects, seq_projects, co, name, color)
          IN  /\ tbl_projects' = r.tbl
              /\ seq_projects' = r.seq
              /\ op' = "db::create_project"
              /\ arg' = Some([id |-> seq_projects + 1])
              /\ ret' = [ok |-> r.ok, value |-> <<>>]
              /\ calls' = <<"db::create_project">>
              /\ errs' = IF r.ok THEN {} ELSE {"db::create_project"}
    /\ UNCHANGED <<build_vars, main_context, now, tbl_time_entries,
                   seq_time_entries, proc, app_vars>>

\* delete_project of a stored or an unknown id
DbDeleteProjectNamed ==
    /\ \E id \in 1..(seq_projects + 1), wo \in WriteOutcomes :
          LET r == delete_project(tbl_projects, tbl_time_entries, wo, id)
          IN  /\ tbl_projects' = r.projects
              /\ tbl_time_entries' = r.time_entries
              /\ op' = "db::delete_project"
              /\ arg' = Some([id |-> id])
              /\ ret' = [ok |-> r.ok, value |-> <<>>]
              /\ calls' = <<"db::delete_project">>
              /\ errs' = IF r.ok THEN {} ELSE {"db::delete_project"}
    /\ UNCHANGED <<build_vars, main_context, now, seq_projects,
                   seq_time_entries, proc, app_vars>>

\* get_all_projects; the log keeps the Vec returned
DbGetAllProjects ==
    /\ \E res \in get_all_projects(tbl_projects) :
          /\ op' = "db::get_all_projects" /\ arg' = None
          /\ ret' = [ok |-> TRUE, value |-> res]
          /\ calls' = <<"db::get_all_projects">> /\ errs' = {}
    /\ UNCHANGED <<build_vars, main_context, now, db_vars, proc, app_vars>>

\* projects created, deleted and listed
NextCatalog ==
    \/ DbCreateProjectNamed
    \/ DbDeleteProjectNamed
    \/ DbGetAllProjects

NextDb ==
    \/ AdvanceClock
    \/ DbCreateProject
    \/ DbCreateEntry
    \/ DbStopEntry
    \/ DbDeleteEntry
    \/ DbDeleteProject

\* a connection just opened on a new database; the edition plays no part
InitDb == Init /\ ~edition2024

SpecDb == InitDb /\ [][NextDb]_vars

\* no project is stored here, so that foreign-key enforcement plays no part
InitStamps == InitDb /\ foreign_keys

SpecStamps == InitStamps /\ [][NextStamps]_vars

SpecCatalog == InitDb /\ [][NextCatalog]_vars

\* a database that holds the project Work
InitSummary == InitWork /\ ~edition2024 /\ foreign_keys

SpecSummary == InitSummary /\ [][NextSummary]_vars

\* delete_project called on the project Work
SummaryDeleteProject ==
    /\ \E wo \in WriteOutcomes :
          LET r == delete_project(tbl_projects, tbl_time_entries, wo, 1)
          IN  /\ tbl_projects' = r.projects
              /\ tbl_time_entries' = r.time_entries
              /\ DbLog("db::delete_project", [id |-> 1, fault |-> wo], r.ok)
    /\ UNCHANGED <<build_vars, main_context, now, seq_projects,
                   seq_time_entries, proc, app_vars>>

\* entries with and without the project are written, the project is deleted
\* and the entries are summed up
NextDeleted ==
    \/ AdvanceClock
    \/ SummaryCreateEntry
    \/ SummaryStopEntry
    \/ SummaryDeleteProject
    \/ Summary

\* a database that holds the project Work, in a build of either kind of
\* foreign-key enforcement
InitDeleted == InitWork /\ ~edition2024

SpecDeleted == InitDeleted /\ [][NextDeleted]_vars

\* the local dates the weekly view is opened on: three whole weeks and the
\* days around them
FirstDay == 9
LastDay == 33
Days == FirstDay..LastDay

\* the weekly view asks for the range of the current week
GetCurrentWeekRange ==
    /\ \E today \in Days :
          /\ op' = "get_current_week_range" /\ arg' = Some(today)
          /\ ret' = get_current_week_range(today)
          /\ calls' = <<>> /\ errs' = {}
    /\ UNCHANGED <<build_vars, main_context, now, db_vars, proc, app_vars>>

\* entries are written and the weekly view is opened on any day
NextWeek ==
    \/ AdvanceClock
    \/ SummaryCreateEntry
    \/ SummaryStopEntry
    \/ GetCurrentWeekRange

SpecWeek == InitSummary /\ [][NextWeek]_vars

\* ------------------------------------------------------------- properties
\* the rows with no end_time
OpenRows(tbl) == {r \in tbl : r.end_time = None}

StopIcon == "media-playback-stop-symbolic"

\* C1: under normal operation (start only while nothing runs, stop only while
\* something does, toggle at any time) storage never holds more than one time
\* entry without end_time, and get_running_entry has exactly one possible
\* answer: that entry, or none.
C1_AtMostOneOpenEntry ==
    /\ Cardinality(OpenRows(tbl_time_entries)) <= 1
    /\ Cardinality(get_running_entry(tbl_time_entries)) = 1

\* C1 witness: a timer started again after an earlier one was stopped
C1_Witness ==
    /\ op = "toggle_timer" /\ ret = "true"
    /\ Cardinality(OpenRows(tbl_time_entries)) = 1
    /\ tbl_time_entries \ OpenRows(tbl_time_entries) # {}

\* C2: whenever the session holds a running entry, storage holds a row of that
\* id with no end_time, whatever start, stop, continue and delete calls, failed
\* or not, came before.
C2_RunningEntryIsOpenInStorage ==
    IsSome(running_entry) =>
        \E r \in tbl_time_entries :
            r.id = Unwrap(running_entry).id /\ r.end_time = None

\* C2 witness: the session still runs after a stop that failed in storage
C2_Witness ==
    /\ op = "stop_timer" /\ errs = {"stop_entry"}
    /\ IsSome(running_entry)
    /\ Cardinality(tbl_time_entries) = 2

\* C3: delete_entry on the id of the running entry returns false, makes no
\* storage call and leaves the row, open, and running_entry as they were.
C3_DeleteRunningRefused ==
    [][(/\ op' = "delete_entry"
        /\ IsSome(running_entry)
        /\ arg' = Some(Unwrap(running_entry).id))
       => /\ ret' = "false"
          /\ calls' = <<>>
          /\ tbl_time_entries' = tbl_time_entries
          /\ running_entry' = running_entry
          /\ \E r \in tbl_time_entries' :
                r.id = Unwrap(running_entry).id /\ r.end_time = None]_vars

\* C3 witness: a refused delete of the running entry
C3_Witness ==
    /\ op = "delete_entry" /\ ret = "false" /\ errs = {}
    /\ IsSome(running_entry)
    /\ arg = Some(Unwrap(running_entry).id)

\* C4 (as claimed): after build_window, when its get_running_entry query did
\* not fail, the new process is up and its running_entry is what the query
\* returns for the storage: the open entry, or none.
C4_RestartRecovery ==
    (op = "build_window" /\ errs = {}) =>
        /\ proc = "running"
        /\ running_entry \in get_running_entry(tbl_time_entries)

\* C5 (as claimed): after a successful delete_project(p) every entry that
\* referred to p is still stored, with no project_id.
C5_CascadeSetNull ==
    [][(op' = "delete_project" /\ errs' = {})
       => \A r \in tbl_time_entries :
             r.project_id = arg'
                => [r EXCEPT !.project_id = None] \in tbl_time_entries']_vars

C7_FailedStartKeepsSession ==
    [][(op' = "start_timer" /\ "create_entry" \in errs')
       => /\ ret' = "false"
          /\ running_entry' = running_entry]_vars

\* C7 witness: a failed start while an entry was running
C7_Witness ==
    /\ op = "start_timer" /\ errs = {"create_entry"}
    /\ IsSome(running_entry)

\* C8: a stop_timer whose stop_entry call fails returns false and leaves
\* running_entry on the same entry, the button on stop and the inputs locked.
C8_FailedStopKeepsSession ==
    [][(op' = "stop_timer" /\ "stop_entry" \in errs')
       => /\ ret' = "false"
          /\ IsSome(running_entry)
          /\ running_entry' = running_entry
          /\ button_icon' = StopIcon
          /\ ~description_sensitive'
          /\ ~dropdown_sensitive']_vars

\* C8 witness: a failed stop
C8_Witness ==
    /\ op = "stop_timer" /\ errs = {"stop_entry"} /\ ret = "false"
    /\ button_icon = StopIcon

\* C9 (as claimed): a successful start_timer, called as its contract asks
\* while nothing runs, adds exactly one row, with the description and project
\* of the inputs, start_time the current second and no end_time, makes it the
\* running_entry, and get_running_entry then returns it and nothing else.
C9_SuccessfulStart ==
    [][(op' = "start_timer" /\ ret' = "true" /\ running_entry = None)
       => \E r \in tbl_time_entries' :
             /\ r \notin tbl_time_entries
             /\ tbl_time_entries' = tbl_time_entries \cup {r}
             /\ r.description = description_text
             /\ r.project_id = get_selected_project_id(dropdown_selected)
             /\ r.start_time = format_datetime(now)
             /\ r.end_time = None
             /\ running_entry' = Some(row_to_entry(r))
             /\ get_running_entry(tbl_time_entries') = {running_entry'}]_vars

\* C10: a successful stop_timer sets end_time to the current second on the row
\* of the running entry and on no other row, clears running_entry, and when
\* that row was the only open one get_running_entry then returns none.
C10_SuccessfulStop ==
    [][(op' = "stop_timer" /\ ret' = "true")
       => /\ IsSome(running_entry)
          /\ \E e \in tbl_time_entries :
                /\ e.id = Unwrap(running_entry).id
                /\ tbl_time_entries' =
                      (tbl_time_entries \ {e})
                         \cup {[e EXCEPT !.end_time = Some(format_datetime(now))]}
                /\ OpenRows(tbl_time_entries) = {e}
                      => get_running_entry(tbl_time_entries') = {None}
          /\ running_entry' = None]_vars

\* C10 witness: a successful stop with another row in storage
C10_Witness ==
    /\ op = "stop_timer" /\ ret = "true"
    /\ Cardinality(tbl_time_entries) = 2
    /\ OpenRows(tbl_time_entries) = {}

\* C11 (as claimed): in every reachable state every stored entry that has an
\* end_time has end_time >= start_time.
C11_EndNotBeforeStart ==
    \A r \in tbl_time_entries : \A e \in r.end_time : e >= r.start_time

\* a step in which stop_entry was called and succeeded
StopSucceeded ==
    /\ IsSome(running_entry)
    /\ \E i \in 1..Len(calls') : calls'[i] = "stop_entry"
    /\ "stop_entry" \notin errs'

\* C11 (amended): a stop through the core made when the wall clock reads no
\* earlier than the entry's start_time stores an end_time >= start_time (the
\* wall clock may step back between start and stop, and then it does not).
C11_StopAfterStartKeepsOrder ==
    [][(StopSucceeded /\ now >= Unwrap(running_entry).start_time)
         => \E r \in tbl_time_entries' :
               /\ r.id = Unwrap(running_entry).id
               /\ IsSome(r.end_time)
               /\ Unwrap(r.end_time) >= r.start_time]_vars

C11_Witness ==
    /\ op = "stop_timer" /\ ret = "true"
    /\ \E r \in tbl_time_entries :
          IsSome(r.end_time) /\ Unwrap(r.end_time) > r.start_time

\* C12: stop_timer called while running_entry is absent returns false, makes
\* no storage call and changes neither storage nor running_entry.
C12_StopWhileIdleIsNoOp ==
    [][(op' = "stop_timer" /\ running_entry = None)
         => /\ ret' = "false"
            /\ calls' = <<>> /\ errs' = {}
            /\ UNCHANGED db_vars
            /\ running_entry' = None]_vars

C12_Witness ==
    /\ op = "stop_timer" /\ ret = "false" /\ calls = <<>>
    /\ running_entry = None
    /\ OpenRows(tbl_time_entries) # {}

\* the step left exactly the state and log the record s describes
StepYields(s) ==
    /\ running_entry' = s.running_entry
    /\ description_text' = s.description_text
    /\ description_sensitive' = s.description_sensitive
    /\ dropdown_selected' = s.dropdown_selected
    /\ dropdown_sensitive' = s.dropdown_sensitive
    /\ button_icon' = s.button_icon
    /\ timer_label' = s.timer_label
    /\ tray_state' = s.tray_state
    /\ tbl_time_entries' = s.time_entries
    /\ seq_time_entries' = s.seq
    /\ ret' = RetOf(s.ret)
    /\ calls' = s.calls
    /\ errs' = s.errs

\* C13: toggle_timer does exactly what stop_timer does when running_entry is
\* present and exactly what start_timer does, with the description and project
\* of the inputs, when it is absent; a toggle that returns true flips whether
\* running_entry is present.
C13_ToggleIsStopOrStart ==
    [][op' = "toggle_timer"
         => /\ IF IsSome(running_entry)
               THEN /\ \E so \in WriteOutcomes : StepYields(stop_timer(Cur, so))
                    /\ calls' = <<"stop_entry">>
                    /\ seq_time_entries' = seq_time_entries
               ELSE /\ \E co \in CreateOutcomes : StepYields(start_timer(Cur, co))
                    /\ calls' = <<"create_entry">>
                    /\ \A r \in tbl_time_entries' \ tbl_time_entries :
                          /\ r.description = description_text
                          /\ r.project_id = get_selected_project_id(dropdown_selected)
            /\ ret' = "true" => (IsSome(running_entry') # IsSome(running_entry))]_vars

C13_Witness ==
    /\ op = "toggle_timer" /\ ret = "true"
    /\ IsSome(running_entry)
    /\ Unwrap(running_entry).description = "coding"
    /\ tbl_time_entries \ OpenRows(tbl_time_entries) # {}

\* what a continue_entry step whose storage calls all succeeded must have done,
\* the new row carrying the project pid: the running entry, if any, was stopped
\* first, one open row seeded from the source was added and made the
\* running_entry, and the source's own row was left as it was.
ContinueDid(pid) ==
    LET source == Unwrap(arg')
        new == tbl_time_entries' \ {r \in tbl_time_entries' :
                                       r.id <= seq_time_entries}
    IN  /\ ret' = "true"
        /\ IF IsSome(running_entry)
           THEN /\ calls' = <<"stop_entry", "create_entry">>
                /\ \E r \in tbl_time_entries' :
                      /\ r.id = Unwrap(running_entry).id
                      /\ r.end_time = Some(format_datetime(now))
           ELSE calls' = <<"create_entry">>
        /\ Cardinality(new) = 1
        /\ \A n \in new :
              /\ n.description = source.description
              /\ n.project_id = pid
              /\ n.end_time = None
              /\ running_entry' = Some(row_to_entry(n))
        /\ \A r \in tbl_time_entries :
              (r.id = source.id /\ Some(r.id) # {e.id : e \in running_entry})
                 => r \in tbl_time_entries'

C15_ContinueProceedsAfterFailedStop ==
    [][(op' = "continue_entry" /\ IsSome(running_entry) /\ "stop_entry" \in errs')
         => /\ calls' = <<"stop_entry", "create_entry">>
            /\ "create_entry" \notin errs'
                 => /\ ret' = "true"
                    /\ \E n \in tbl_time_entries' :
                          /\ n.id = seq_time_entries + 1
                          /\ n.description = Unwrap(arg').description
                          /\ n.project_id = Unwrap(arg').project_id
                          /\ n.end_time = None
                          /\ running_entry' = Some(row_to_entry(n))
                    /\ \E r \in OpenRows(tbl_time_entries') :
                          r.id = Unwrap(running_entry).id]_vars

C15_Witness ==
    /\ op = "continue_entry" /\ errs = {"stop_entry"} /\ ret = "true"
    /\ Cardinality(OpenRows(tbl_time_entries)) = 2
    /\ Unwrap(running_entry).id = 2

\* C16: delete_entry for an id other than the running entry's calls the storage
\* delete; when that succeeds it returns true and the row of that id is gone,
\* when it fails it returns false with storage and running_entry unchanged; in
\* both cases the process goes on and running_entry is as before.
C16_DeleteOtherEntry ==
    [][(/\ op' = "delete_entry"
        /\ arg' # {e.id : e \in running_entry})
         => /\ calls' = <<"delete_entry">>
            /\ proc' = "running"
            /\ running_entry' = running_entry
            /\ IF errs' = {}
               THEN /\ ret' = "true"
                    /\ tbl_time_entries' =
                          {r \in tbl_time_entries : Some(r.id) # arg'}
               ELSE /\ ret' = "false"
                    /\ tbl_time_entries' = tbl_time_entries]_vars

C16_Witness ==
    /\ op = "delete_entry" /\ ret = "true"
    /\ IsSome(running_entry)
    /\ Cardinality(tbl_time_entries) < seq_time_entries

\* the ids stored in a table
Ids(tbl) == {r.id : r \in tbl}

\* C17: db::delete_entry, db::delete_project and db::stop_entry called with an
\* id that is not stored, storage itself working, return Ok and leave every
\* project and every time entry unchanged.
C17_NotFoundIsNoOp ==
    [][(/\ op' \in {"db::delete_entry", "db::delete_project", "db::stop_entry"}
        /\ Unwrap(arg').fault = "ok"
        /\ Unwrap(arg').id \notin (IF op' = "db::delete_project"
                                    THEN Ids(tbl_projects)
                                    ELSE Ids(tbl_time_entries)))
         => /\ ret' = "ok"
            /\ tbl_projects' = tbl_projects
            /\ tbl_time_entries' = tbl_time_entries]_vars

C17_Witness ==
    /\ op = "db::stop_entry" /\ ret = "ok"
    /\ Unwrap(arg).id \notin Ids(tbl_time_entries)
    /\ OpenRows(tbl_time_entries) # {}
    /\ tbl_projects # {}

\* C18: in every step of the core (start, stop, toggle, continue_entry,
\* delete, restore, tick) a stored entry keeps its start_time, and an entry
\* whose end_time is set keeps that end_time.
C18_EntryLifecycle ==
    [][\A r \in tbl_time_entries : \A q \in tbl_time_entries' :
          q.id = r.id
            => /\ q.start_time = r.start_time
               /\ IsSome(r.end_time) => q.end_time = r.end_time]_vars

C18_Witness ==
    /\ op = "continue_entry" /\ ret = "true"
    /\ now = MaxNow
    /\ \E r \in tbl_time_entries :
          /\ r.id = Unwrap(arg).id
          /\ IsSome(r.end_time)
          /\ Unwrap(r.end_time) < format_datetime(now)

\* what the tray must show for the running_entry of the state reached
TrayInSync ==
    /\ tray_state'.is_running = IsSome(running_entry')
    /\ tray_state'.description =
          (IF IsSome(running_entry') THEN Unwrap(running_entry').description
           ELSE "")

\* C19: with the tray set up, after every start, stop, toggle, continue_entry
\* or startup that changed running_entry and after every tick, the tray's
\* is_running equals (running_entry is present) and its description is the
\* running entry's description, empty when nothing runs.
C19_TraySynchronised ==
    [][(/\ tray_manager'
        /\ \/ op' = "tick"
           \/ /\ op' \in {"start_timer", "stop_timer", "toggle_timer",
                           "continue_entry", "build_window"}
              /\ running_entry' # running_entry)
         => TrayInSync]_vars

C19_Witness ==
    /\ op = "continue_entry" /\ tray_manager
    /\ tray_state.is_running /\ tray_state.description = "coding"
    /\ Unwrap(running_entry).id = 2

\* C20: a tick sets the timer label to the whole seconds elapsed since
\* running_entry.start_time (zero when that lies ahead of the clock) when an
\* entry runs and to zero otherwise, pushes the same value to the tray, and
\* leaves running_entry and every stored row unchanged.
C20_TickOnlyRefreshesDisplays ==
    [][op' = "tick"
         => LET elapsed ==
                   IF running_entry = None THEN 0
                   ELSE IF Unwrap(running_entry).start_time > now THEN 0
                   ELSE (now - Unwrap(running_entry).start_time) \div Sub
            IN  /\ timer_label' = elapsed
                /\ tray_manager => tray_state'.elapsed_time = elapsed
                /\ running_entry' = running_entry
                /\ UNCHANGED db_vars]_vars

C20_Witness ==
    /\ op = "tick" /\ IsSome(running_entry) /\ tray_manager
    /\ timer_label = 1 /\ tray_state.elapsed_time = 1

\* C21: a tray activation only queues a closure on the main context: its step,
\* taken on the tray thread, leaves running_entry, the rest of AppState, the
\* process and storage as they were and makes no storage call; what the
\* activation asks for is done by a later step of the main loop that takes the
\* closure from the head of the queue, as one operation like any other.
C21_TrayRedispatches ==
    [][/\ op' = "tray_activate"
            => /\ UNCHANGED <<db_vars, proc, app_vars>>
               /\ calls' = <<>>
               /\ main_context' = Append(main_context, Unwrap(arg'))
       /\ arg' = Some("tray")
            => /\ main_context # <<>>
               /\ Head(main_context) = op'
               /\ main_context' = IF op' = "quit" THEN <<>>
                                  ELSE Tail(main_context)]_vars

\* C21 witness: a toggle asked for from the tray has started a timer on the
\* main loop while another tray closure waits
C21_Witness ==
    /\ op = "toggle_timer" /\ arg = Some("tray") /\ ret = "true"
    /\ IsSome(running_entry)
    /\ main_context # <<>>

\* an instant cut to whole seconds
Trunc(t) == t - (t % Sub)

\* the TimeEntry e is the stored row of its id with the timestamps parsed
ReadsRow(e, tbl) ==
    \E r \in tbl :
        /\ r.id = e.id
        /\ e.start_time = parse_datetime(r.start_time)
        /\ e.end_time = {parse_datetime(t) : t \in r.end_time}

\* C22: create_entry with start_time X returns an entry whose start_time is X
\* cut to whole seconds and stores a row that reads back as that; stop_entry
\* with end_time X stores an end_time that reads back as X cut to whole
\* seconds; no step changes a stored start_time, nor an end_time other than
\* by stop_entry on that id; get_running_entry and get_entries_for_date
\* return the stored timestamps of each entry.
C22_TimestampRoundTrip ==
    [][/\ (op' = "db::create_entry" /\ ret'.ok)
            => LET e == Unwrap(ret'.value)
               IN  /\ e.id = Unwrap(arg').id
                   /\ e.start_time = Trunc(Unwrap(arg').at)
                   /\ ReadsRow(e, tbl_time_entries')
       /\ (op' = "db::stop_entry" /\ ret'.ok)
            => \A r \in tbl_time_entries' :
                  r.id = Unwrap(arg').id
                     => {parse_datetime(t) : t \in r.end_time}
                           = {Trunc(Unwrap(arg').at)}
       /\ \A r \in tbl_time_entries : \A q \in tbl_time_entries' :
             r.id = q.id
                => /\ q.start_time = r.start_time
                   /\ q.end_time # r.end_time
                         => op' = "db::stop_entry" /\ r.id = Unwrap(arg').id
       /\ op' = "db::get_running_entry"
            => \A e \in ret'.value : ReadsRow(e, tbl_time_entries')
       /\ op' = "db::get_entries_for_date"
            => \A i \in DOMAIN ret'.value :
                  ReadsRow(ret'.value[i], tbl_time_entries')]_vars

\* C22 witness: an entry created at an instant inside a second came back with
\* the second's start
C22_Witness ==
    /\ op = "db::create_entry" /\ ret.ok
    /\ Unwrap(arg).at % Sub # 0
    /\ Unwrap(ret.value).start_time < Unwrap(arg).at

\* C27: get_entries_for_date(date) returns each stored entry whose start_time
\* lies within the calendar day `date` exactly once, with its stored values,
\* and no other entry, the later start_time first.
C27_EntriesOfTheDate ==
    [][op' = "db::get_entries_for_date"
         => LET d == Unwrap(arg').date
                res == ret'.value
                onDate == {r \in tbl_time_entries' :
                              /\ d * DaySecs <= r.start_time
                              /\ r.start_time < (d + 1) * DaySecs}
            IN  /\ {res[i].id : i \in DOMAIN res} = {r.id : r \in onDate}
                /\ Len(res) = Cardinality(onDate)
                /\ \A i \in DOMAIN res : ReadsRow(res[i], onDate)
                /\ \A i, j \in DOMAIN res :
                      i < j => res[i].start_time >= res[j].start_time]_vars

\* C27 witness: two entries of one day returned, the one inserted first being
\* the more recent
C27_Witness ==
    /\ op = "db::get_entries_for_date"
    /\ Len(ret.value) = 2
    /\ ret.value[1].id = 1
    /\ ret.value[1].start_time > ret.value[2].start_time

\* the sum of a sequence of integers
RECURSIVE SumSeq(_)
SumSeq(q) ==
    IF Len(q) = 0 THEN 0
    ELSE q[Len(q)] + SumSeq(SubSeq(q, 1, Len(q) - 1))

\* max(0, (end_time or t) - start_time) in whole seconds, entry by entry
Terms(entries, t) ==
    [i \in DOMAIN entries |->
        LET e == entries[i]
            end == IF e.end_time = None THEN t ELSE Unwrap(e.end_time)
        IN  IF end > e.start_time THEN (end - e.start_time) \div Sub ELSE 0]

\* C23: calculate_entries_duration(entries) is the sum over the entries of
\* max(0, (end_time or now) - start_time) in seconds: an entry whose end_time
\* lies before its start_time adds nothing, and an entry without end_time adds
\* the seconds from its start_time to now.
C23_TotalDuration ==
    [][op' = "summary"
         => ret'.total = SumSeq(Terms(Unwrap(arg'), now'))]_vars

\* C23 witness: a total of one second made of an entry that ends before it
\* starts and an entry still open
C23_Witness ==
    /\ op = "summary" /\ ret.total = 1
    /\ \E i, j \in DOMAIN Unwrap(arg) :
          LET a == Unwrap(arg)[i]
              b == Unwrap(arg)[j]
          IN  /\ IsSome(a.end_time) /\ Unwrap(a.end_time) < a.start_time
              /\ b.end_time = None /\ b.start_time < now

\* the index at which project_id pid is first met in the vector
FirstAt(entries, pid) ==
    CHOOSE i \in DOMAIN entries :
        /\ entries[i].project_id = pid
        /\ \A j \in 1..(i - 1) : entries[j].project_id # pid

\* C24: the rows of the breakdown come with durations not increasing, and of
\* two groups with equal duration the one whose project_id is met first in the
\* entry sequence comes first.
C24_BreakdownOrder ==
    [][op' = "summary"
         => LET rows == ret'.breakdown
            IN  \A i, j \in DOMAIN rows :
                   i < j
                     => \/ rows[i].duration > rows[j].duration
                        \/ /\ rows[i].duration = rows[j].duration
                           /\ FirstAt(Unwrap(arg'), rows[i].project_id)
                                 < FirstAt(Unwrap(arg'), rows[j].project_id)]_vars

\* C25: the breakdown has one row for each project_id value that occurs among
\* the entries (no project being one value) and no other row, and its
\* durations add up to calculate_entries_duration of the same entries.
C25_BreakdownPartitions ==
    [][op' = "summary"
         => LET rows == ret'.breakdown
                entries == Unwrap(arg')
                pids == {entries[i].project_id : i \in DOMAIN entries}
            IN  /\ Len(rows) = Cardinality(pids)
                /\ {rows[i].project_id : i \in DOMAIN rows} = pids
                /\ SumSeq([i \in DOMAIN rows |-> rows[i].duration])
                      = ret'.total]_vars

\* C25 witness: two entries of one project in one row of two seconds
C25_Witness ==
    /\ op = "summary" /\ Len(Unwrap(arg)) = 2
    /\ Len(ret.breakdown) = 1
    /\ ret.breakdown[1].project_id = Some(1)
    /\ ret.breakdown[1].duration = 2 /\ ret.total = 2

\* name a comes before name b, or is b, in ascending order
NameLeq(a, b) ==
    \/ a = b
    \/ <<a, b>> \in {<<"Learning", "Personal">>, <<"Learning", "Work">>,
                      <<"Personal", "Work">>}

\* C28: get_all_projects returns each stored project exactly once and nothing
\* else, names ascending, hence the empty sequence when none is stored; the
\* stored projects change only by create_project adding the row of a new id
\* and by delete_project removing the row of the id it is given.
C28_AllProjectsByName ==
    [][/\ op' = "db::get_all_projects"
            => LET res == ret'.value
               IN  /\ {res[i] : i \in DOMAIN res} = tbl_projects'
                   /\ Len(res) = Cardinality(tbl_projects')
                   /\ \A i, j \in DOMAIN res :
                         i < j => NameLeq(res[i].name, res[j].name)
       /\ tbl_projects' # tbl_projects
            => \/ /\ op' = "db::create_project"
                  /\ tbl_projects \subseteq tbl_projects'
                  /\ \A p \in tbl_projects' \ tbl_projects :
                        p.id = Unwrap(arg').id
               \/ /\ op' = "db::delete_project" /\ ret'.ok
                  /\ tbl_projects' =
                        {p \in tbl_projects : p.id # Unwrap(arg').id}]_vars

\* C28 witness: two projects listed by name against the order of creation
C28_Witness ==
    /\ op = "db::get_all_projects"
    /\ Len(ret.value) = 2
    /\ ret.value[1].name = "Learning" /\ ret.value[2].name = "Work"
    /\ ret.value[1].id > ret.value[2].id

\* C29: the elapsed value shown by the timer label and the tray is never
\* negative; whenever update_timer_display has run (the tick, and every timer
\* operation that returned true) it is the whole seconds from
\* running_entry.start_time to now, and zero when start_time lies after now
\* or nothing runs.
C29_ElapsedClampedAtZero ==
    [][/\ timer_label' >= 0
       /\ tray_state'.elapsed_time >= 0
       /\ (\/ op' = "tick"
           \/ /\ op' \in {"start_timer", "stop_timer", "toggle_timer",
                           "continue_entry"}
              /\ ret' = "true")
            => LET shown ==
                      IF running_entry' = None THEN 0
                      ELSE IF Unwrap(running_entry').start_time > now' THEN 0
                      ELSE (now' - Unwrap(running_entry').start_time) \div Sub
               IN  /\ timer_label' = shown
                   /\ tray_manager' => tray_state'.elapsed_time = shown]_vars

\* C29 witness: a tick while the running entry's start_time is a second ahead
\* of the clock
C29_Witness ==
    /\ op = "tick" /\ IsSome(running_entry) /\ tray_manager
    /\ Unwrap(running_entry).start_time >= now + Sub
    /\ timer_label = 0 /\ tray_state.elapsed_time = 0

\* what one stop_timer step may do to the running entry and its row
StopIsRetryable ==
    /\ (op' \in {"stop_timer", "toggle_timer"} /\ "stop_entry" \in errs')
         => /\ running_entry' = running_entry
            /\ tbl_time_entries' = tbl_time_entries
    /\ (op' \in {"stop_timer", "toggle_timer"} /\ IsSome(running_entry)
                                                    /\ errs' = {})
         => /\ ret' = "true"
            /\ running_entry' = None
            /\ tbl_time_entries' =
                  {IF r.id = Unwrap(running_entry).id
                   THEN [r EXCEPT !.end_time = Some(now \div Sub)]
                   ELSE r : r \in tbl_time_entries}
            /\ \E r \in tbl_time_entries :
                  r.id = Unwrap(running_entry).id

\* C30: a stop_timer (called directly or through the toggle button) that fails
\* in storage leaves running_entry and the stored rows as they were; a
\* stop_timer made while that entry still runs and
\* storage works returns true, sets the end_time of the row of that id, leaves
\* every other row as it was and clears running_entry; so when stops keep
\* being asked for and storage recovers, a failed stop is followed by the
\* not-running state.
C30_RetryableStop ==
    /\ [][StopIsRetryable]_vars
    /\ ((op \in {"stop_timer", "toggle_timer"} /\ ret = "false"
                                                 /\ IsSome(running_entry))
            ~> (running_entry = None))

\* C30 witness: the stop asked for again after a failure went through, the
\* entry being closed and nothing running
C30_Witness ==
    /\ op = "stop_timer" /\ arg = Some("retry") /\ ret = "true"
    /\ running_entry = None
    /\ OpenRows(tbl_time_entries) = {}
    /\ tbl_time_entries # {}

\* 1970-01-05, day 4, was a Monday
IsMonday(d) == \E k \in 0..((LastDay \div 7) + 1) : d = 4 + 7 * k

\* C26: for every today, get_current_week_range returns a monday that is a
\* Monday, sunday = monday + 6 days, and monday <= today <= sunday.
C26_CurrentWeekRange ==
    op = "get_current_week_range"
    => LET today == Unwrap(arg)
       IN  /\ IsMonday(ret.monday)
           /\ ret.sunday = ret.monday + 6
           /\ ret.monday <= today
           /\ today <= ret.sunday

\* C26 witness: the range asked for on a Sunday ends on that day and began
\* six days before
C26_Witness ==
    /\ op = "get_current_week_range"
    /\ ret.sunday = Unwrap(arg)
    /\ ret.monday = Unwrap(arg) - 6
    /\ tbl_time_entries # {}

\* C31: while the window exists, after every operation (start, stop, toggle,
\* continue_entry, startup restore, whether it succeeded or failed) the
\* start/stop button shows the stop icon if and only if running_entry is
\* present.
C31_ButtonModeFollowsSession ==
    proc = "running" => (button_icon = StopIcon <=> IsSome(running_entry))

\* C31 witness: a continue_entry whose stop went through and whose start
\* failed, leaving nothing running and the play icon
C31_Witness ==
    /\ op = "continue_entry" /\ ret = "false"
    /\ calls = <<"stop_entry", "create_entry">>
    /\ errs = {"create_entry"}
    /\ running_entry = None
    /\ button_icon # StopIcon

\* C32: in every state of a live session reached through core operations and
\* restarts, storage failures included, storage holds no entry without
\* end_time while running_entry is absent.
C32_NoOrphanOpenEntry ==
    (proc = "running" /\ running_entry = None)
        => OpenRows(tbl_time_entries) = {}

\* C33: when no storage call fails, whatever the user does through the window,
\* the keys, the list rows, the tray and restarts, storage never holds more
\* than one entry without end_time.
C33_UiKeepsOneOpenEntry ==
    Cardinality(OpenRows(tbl_time_entries)) <= 1

\* C33 witness: an entry continued while another ran: the running one was
\* stopped and the new one is the only open entry
C33_Witness ==
    /\ op = "continue_entry" /\ ret = "true"
    /\ calls = <<"stop_entry", "create_entry">>
    /\ Cardinality(OpenRows(tbl_time_entries)) = 1
    /\ Cardinality(tbl_time_entries) = 2

\* C34: a start_timer whose create_entry call returns an error, the INSERT or
\* the read-back having failed, has added no row to time_entries and leaves
\* running_entry as it was.
C34_FailedCreateAddsNoRow ==
    [][(op' = "start_timer" /\ "create_entry" \in errs')
       => /\ tbl_time_entries' = tbl_time_entries
          /\ running_entry' = running_entry]_vars

\* C35: no operation asks for borrow_mut on the shared AppState cell while an
\* earlier borrow of the same call chain is alive, so that no step, the startup
\* restore over a running entry included, ends with the process aborted.
C35_NoBorrowConflict ==
    proc # "panicked"

\* C36: right after a successful start the Today view, which lists
\* get_entries_for_date of the local calendar date of now, contains the entry
\* just started, in every timezone and at every time of day.
C36_TodayViewShowsNewEntry ==
    (op = "toggle_timer" /\ ret = "true" /\ IsSome(running_entry))
        => \E i \in DOMAIN Unwrap(Unwrap(arg).view) :
              Unwrap(Unwrap(arg).view)[i].id = Unwrap(running_entry).id

\* C37: however tray clicks interleave with the main window, the toggle run
\* for a click on the item labelled "Stop Timer" never creates an entry, and
\* the toggle run for a click on "Start Timer" never stops a running entry.
C37_TrayLabelMatchesEffect ==
    [][/\ (op' = "toggle_timer" /\ arg' = Some("Stop Timer"))
            => /\ seq_time_entries' = seq_time_entries
               /\ {r.id : r \in tbl_time_entries'}
                     \subseteq {r.id : r \in tbl_time_entries}
       /\ (op' = "toggle_timer" /\ arg' = Some("Start Timer"))
            => ~(IsSome(running_entry) /\ running_entry' = None)]_vars

\* C38: after every core operation the description field and the project
\* selector are disabled if and only if running_entry is present, and while it
\* is present the text of the description field is running_entry.description.
C38_InputLock ==
    proc = "running"
        => /\ ~description_sensitive <=> IsSome(running_entry)
           /\ ~dropdown_sensitive <=> IsSome(running_entry)
           /\ IsSome(running_entry)
                 => description_text = Unwrap(running_entry).description

\* C39: once the only project is deleted, a breakdown over entries that
\* referred to it and entries that never had a project has a single row, named
\* "No Project" and coloured #888888, whose duration is the sum over both kinds
\* of entries.
C39_DeletedProjectJoinsNoProject ==
    (op = "summary" /\ tbl_projects = {} /\ Unwrap(arg) # <<>>)
        => /\ Len(ret.breakdown) = 1
           /\ ret.breakdown[1].info =
                 [name |-> "No Project", color |-> "#888888"]
           /\ ret.breakdown[1].duration = ret.total

====
